---- MODULE Spec2Model ----
(***************************************************************************)
(* Event ingestion and dispatch runtime of openhivenpy:                    *)
(* gateway/messagebroker.py (DynamicEventBuffer, MessageBroker, Worker,    *)
(* EventConsumer) together with the event listeners the workers call.      *)
(*                                                                         *)
(* Every action is one run of code between two suspension points of the    *)
(* asyncio event loop; tasks that are ready run in any order.              *)
(***************************************************************************)
EXTENDS Integers, Sequences, FiniteSets, TLC

\* ------------------------------------------------------------------ bounds
MaxEvents == 3      \* add() calls in one behaviour
MaxTicks == 2       \* iterations of process_loop that find an event waiting
MaxBuffers == 2     \* buffers get_buffer() creates ahead of an add()
MaxIngest == MaxTicks   \* events fed to a run that dispatches to listeners
MaxFailures == 1    \* listener callbacks that raise in one behaviour
MaxCalls == 2       \* calls of the HTTPClient's request methods

\* ------------------------------------------------------------------ inputs
EventTypes == {"ready", "message_create"}
Status == {"CONNECTING", "OPEN", "CLOSING", "CLOSED"}
Callers == {"gateway", "user"}

\* The listeners of the run: two multi-dispatch listeners and one
\* single-dispatch listener on message_create, and the multi-dispatch
\* listener R on "ready".
Listeners == {"A", "B", "S", "R"}
event_name(l) == IF l = "R" THEN "ready" ELSE "message_create"
IsSingle(l) == l = "S"

\* What the caller of add() passes after the data, *args and **kwargs: the
\* calls alternate between none and one of each, so that two records in a row
\* never carry the same arguments.
Extra(data) == IF data % 2 = 1
               THEN [args |-> <<"test">>, kwargs |-> {<<"test", "test">>}]
               ELSE [args |-> << >>, kwargs |-> {}]

VARIABLES
    connection_status,  \* client.connection_status
    running_loop,       \* MessageBroker.running_loop: None, "running", "done"
    queuing,            \* client.queuing
    event_queues,       \* MessageBroker.event_queues: event -> buffer object
    heap,               \* buffer object -> its list of records
    handle,             \* what get_buffer(event) returned to a caller, and
                        \* what the caller's get_next_event() on it gave
    workers,            \* EventConsumer.workers: event -> Worker
    active_listeners,   \* client.active_listeners: event -> list of listeners
    listener,           \* the listener objects: created, dispatched, args, kwargs,
                        \* the wait_for call that made it: none, pending,
                        \* event (returned the arguments), timeout;
                        \* and whether its constructor raised
    acts,               \* run_one_sequence tasks created by process_loop
    tasks,              \* listener coroutines created by run_one_sequence
    ticks,              \* iterations of process_loop that found an event
    added,              \* history: records appended to each buffer, in order
    popped,             \* history: records get_next_event() returned, in order
    http                \* the HTTPClient: http_ready, self._request and the
                        \* calls of post, put, patch and raw_request

vars == << connection_status, running_loop, queuing, event_queues, heap, handle,
           workers, active_listeners, listener, acts, tasks, ticks, added, popped,
           http >>

\* ------------------------------------------------------------------ helpers
Range(s) == { s[i] : i \in DOMAIN s }

Without(s, x) == SelectSeq(s, LAMBDA y : y # x)

\* d[k] = v in a dict, and del d[k]
Put(d, k, v) == [x \in DOMAIN d \cup {k} |-> IF x = k THEN v ELSE d[x]]

Drop(d, k) == [x \in DOMAIN d \ {k} |-> d[x]]

NumAdded == Cardinality({ <<b, i>> \in (DOMAIN added) \X (1..MaxEvents) :
                             i \in DOMAIN added[b] })

NumFailed == Cardinality({ t \in tasks : t.st = "failed" })

\* ------------------------------------------------------ DynamicEventBuffer
\* list.insert(0, record): the record goes to the head of the list
add_first(buf, data, args, kwargs) ==
    <<[data |-> data, args |-> args, kwargs |-> kwargs]>> \o buf

\* list.append of the record {'data', 'args', 'kwargs'}
add(buf, data, args, kwargs) ==
    Append(buf, [data |-> data, args |-> args, kwargs |-> kwargs])

\* list.pop() instead of list.pop(0): the newest record
get_next_event_newest(buf) ==
    IF buf = << >> THEN [raised |-> "IndexError", rest |-> buf]
    ELSE [raised |-> "no", event |-> buf[Len(buf)],
          rest |-> SubSeq(buf, 1, Len(buf) - 1)]

\* buf[0] instead of buf.pop(0): the record stays in the list
get_next_event_peek(buf) ==
    IF buf = << >> THEN [raised |-> "IndexError", rest |-> buf]
    ELSE [raised |-> "no", event |-> Head(buf), rest |-> buf]

\* "return self[0] if self else None": no exception on an empty list
get_next_event_or_none(buf) ==
    IF buf = << >> THEN [raised |-> "no", event |-> "None", rest |-> buf]
    ELSE [raised |-> "no", event |-> Head(buf), rest |-> Tail(buf)]

\* list.pop(0): the record returned and the list left behind; on an empty list
\* pop raises IndexError and the list stays as it is
get_next_event(buf) ==
    IF buf = << >> THEN [raised |-> "IndexError", rest |-> buf]
    ELSE [raised |-> "no", event |-> Head(buf), rest |-> Tail(buf)]

\* ----------------------------------------------------------- MessageBroker
\* running computed from client.connection_status instead of the task
running_from_status ==
    IF running_loop # "None"
    THEN connection_status \notin {"CLOSING", "CLOSED"} ELSE FALSE

\* The property MessageBroker.running: "if self.running_loop: return not
\* self.running_loop.done() else: return False"
running == IF running_loop # "None" THEN running_loop # "done" ELSE FALSE

\* create_buffer: a new DynamicEventBuffer object
NewBuffer == Cardinality(DOMAIN heap) + 1

\* get_buffer never finds a buffer in the cache: every call creates one
get_buffer_miss(event) == FALSE

\* get_buffer: "buffer = self.event_queues.get(event); if buffer:" -- the
\* cached buffer is returned when it is there and, being a list, not empty
get_buffer_hit(event) ==
    event \in DOMAIN event_queues /\ Len(heap[event_queues[event]]) > 0

GetBuffer(c, event) ==
    /\ c \notin DOMAIN handle
    /\ IF get_buffer_hit(event)
       THEN /\ handle' = Put(handle, c, [event |-> event,
                                           buffer |-> event_queues[event],
                                           raised |-> "none", got |-> << >>])
            /\ UNCHANGED << heap, added, popped, event_queues >>
       ELSE /\ Cardinality(DOMAIN heap) < MaxBuffers
            /\ heap' = Put(heap, NewBuffer, << >>)
            /\ added' = Put(added, NewBuffer, << >>)
            /\ popped' = Put(popped, NewBuffer, << >>)
            /\ event_queues' = Put(event_queues, event, NewBuffer)
            /\ handle' = Put(handle, c, [event |-> event, buffer |-> NewBuffer,
                                           raised |-> "none", got |-> << >>])
    /\ UNCHANGED << connection_status, running_loop, queuing, workers,
                    active_listeners, listener, acts, tasks, ticks >>
    /\ UNCHANGED http

\* buffer.add(data, *args, **kwargs) on the buffer get_buffer() returned
Add(c) ==
    /\ c \in DOMAIN handle
    /\ NumAdded < MaxEvents
    /\ LET b == handle[c].buffer
           data == NumAdded + 1
           x == Extra(data)
       IN /\ heap' = [heap EXCEPT ![b] = add(heap[b], data, x.args, x.kwargs)]
          /\ added' = [added EXCEPT ![b] = add(added[b], data, x.args, x.kwargs)]
    /\ handle' = Drop(handle, c)
    /\ UNCHANGED << connection_status, running_loop, queuing, event_queues,
                    workers, active_listeners, listener, acts, tasks, ticks,
                    popped >>
    /\ UNCHANGED http

\* buffer.get_next_event() called on the buffer get_buffer() returned, outside
\* the workers: the caller gets the record or the IndexError
Pop(c) ==
    /\ c \in DOMAIN handle
    /\ handle[c].raised = "none"
    /\ LET b == handle[c].buffer
           next == get_next_event(heap[b])
       IN /\ heap' = [heap EXCEPT ![b] = next.rest]
          /\ IF next.raised = "no"
             THEN /\ popped' = [popped EXCEPT ![b] = Append(@, next.event)]
                  /\ handle' = [handle EXCEPT ![c].raised = "no",
                                              ![c].got = <<next.event>>]
             ELSE /\ popped' = popped
                  /\ handle' = [handle EXCEPT ![c].raised = next.raised]
    /\ UNCHANGED << connection_status, running_loop, queuing, event_queues,
                    workers, active_listeners, listener, acts, tasks, ticks,
                    added >>
    /\ UNCHANGED http

\* The ingestion path, "get_buffer(event).add(data, *args, **kwargs)" in one go
Ingest(event) ==
    /\ NumAdded < MaxIngest
    /\ LET data == NumAdded + 1
           x == Extra(data)
       IN IF get_buffer_hit(event)
          THEN LET b == event_queues[event]
               IN /\ heap' = [heap EXCEPT ![b] = add(heap[b], data, x.args, x.kwargs)]
                  /\ added' = [added EXCEPT ![b] = add(added[b], data, x.args, x.kwargs)]
                  /\ UNCHANGED << popped, event_queues >>
          ELSE /\ heap' = Put(heap, NewBuffer, add(<< >>, data, x.args, x.kwargs))
               /\ added' = Put(added, NewBuffer, add(<< >>, data, x.args, x.kwargs))
               /\ popped' = Put(popped, NewBuffer, << >>)
               /\ event_queues' = Put(event_queues, event, NewBuffer)
    /\ UNCHANGED << connection_status, running_loop, queuing, handle, workers,
                    active_listeners, listener, acts, tasks, ticks >>
    /\ UNCHANGED http

\* MessageBroker.run: the process_loop task is created
Run ==
    /\ running_loop = "None"
    /\ running_loop' = "running"
    /\ UNCHANGED << connection_status, queuing, event_queues, heap, handle,
                    workers, active_listeners, listener, acts, tasks, ticks,
                    added, popped >>
    /\ UNCHANGED http

\* ----------------------------------------------------------- the listeners
\* What a listener is created with as its coroutine
Coros == {"coro", "None"}

\* The listener is registered under "ready" whatever its event name is
RegisterUnderReady(l) ==
    /\ ~listener[l].created
    /\ listener' = [listener EXCEPT ![l].created = TRUE]
    /\ active_listeners' = [active_listeners EXCEPT !["ready"] = Append(@, l)]
    /\ UNCHANGED << connection_status, running_loop, queuing, event_queues,
                    heap, handle, workers, acts, tasks, ticks, added, popped >>
    /\ UNCHANGED http

\* Creating a listener object registers it under its event name.
Register(l) ==
    /\ ~listener[l].created
    /\ listener' = [listener EXCEPT ![l].created = TRUE]
    /\ active_listeners' = [active_listeners EXCEPT
                              ![event_name(l)] = Append(@, l)]
    /\ UNCHANGED << connection_status, running_loop, queuing, event_queues,
                    heap, handle, workers, acts, tasks, ticks, added, popped >>
    /\ UNCHANGED http

\* MultiDispatchEventListener(client, event_name, None) raises and leaves no
\* listener; with a coroutine the constructor registers the listener
Create(l, coro) ==
    /\ listener[l].raised = "no"
    /\ IF coro = "None"
       THEN /\ ~IsSingle(l)
            /\ ~listener[l].created
            /\ listener' = [listener EXCEPT ![l].raised = "error"]
            /\ UNCHANGED << connection_status, running_loop, queuing,
                            event_queues, heap, handle, workers,
                            active_listeners, acts, tasks, ticks, added,
                            popped, http >>
       ELSE Register(l)

\* remove(listener) by the listener's owner
Remove(l) ==
    /\ l \in Range(active_listeners[event_name(l)])
    /\ active_listeners' = [active_listeners EXCEPT
                              ![event_name(l)] = Without(@, l)]
    /\ UNCHANGED << connection_status, running_loop, queuing, event_queues,
                    heap, handle, workers, listener, acts, tasks, ticks,
                    added, popped >>
    /\ UNCHANGED http

\* ----------------------------------------------------------- EventConsumer
\* a worker that never waits, whatever client.queuing is
WorkerNoQueuing(event) == [event |-> event, queuing |-> FALSE, made |-> ticks + 1]
\* Worker.__init__: the worker copies client.queuing. The object is told apart
\* from another Worker of the event by the iteration that made it.
Worker(event) == [event |-> event, queuing |-> queuing, made |-> ticks + 1]

\* A new Worker in every iteration, without looking into self.workers
create_worker_always(w, event) == Put(w, event, Worker(event))

\* create_worker, called when workers.get(event) finds none
create_worker(w, event) == IF event \in DOMAIN w THEN w ELSE Put(w, event, Worker(event))

\* "if val:" in process_loop: the buffers that are not empty
NonEmptyOrEmpty == DOMAIN event_queues
NonEmpty == { e \in DOMAIN event_queues : Len(heap[event_queues[e]]) > 0 }

\* The loop goes on until the connection is closed: CLOSING does not end it
LoopGoesOnUntilClosed == connection_status # "CLOSED"

\* The loop awaits the run_one_sequence tasks: it does not go on while one
\* of them is suspended
LoopGoesOnWhenIdle ==
    /\ connection_status \notin {"CLOSING", "CLOSED"}
    /\ \A a \in acts : a.st # "waiting"

\* The loop condition of process_loop
LoopGoesOn == connection_status \notin {"CLOSING", "CLOSED"}

\* One iteration of process_loop up to its sleep: a run_one_sequence task for
\* every buffer that is not empty. An iteration that finds every buffer empty
\* changes nothing.
Tick ==
    /\ running_loop = "running"
    /\ LoopGoesOn
    /\ NonEmpty # {}
    /\ ticks < MaxTicks
    /\ ticks' = ticks + 1
    /\ workers' = [e \in DOMAIN workers \cup NonEmpty |->
                     create_worker(workers, e)[e]]
    /\ acts' = acts \cup { [id |-> <<ticks + 1, e>>, event |-> e,
                            queuing |-> create_worker(workers, e)[e].queuing,
                            st |-> "created", exec |-> "none",
                            data |-> 0, snapshot |-> << >>] : e \in NonEmpty }
    /\ UNCHANGED << connection_status, running_loop, queuing, event_queues,
                    heap, handle, active_listeners, listener, tasks, added,
                    popped >>
    /\ UNCHANGED http

\* An iteration of process_loop as the event loop orders it: the tasks the
\* iteration before created with create_task have run their first step before
\* the sleep of 0.05 s ends.
TickInOrder ==
    /\ \A a \in acts : a.st # "created"
    /\ Tick

\* ------------------------------------------------------------------ Worker
\* "if self.event_buffer is not None": an empty buffer passes the test
event_buffer_exists(event) == event \in DOMAIN event_queues

\* Worker.event_buffer is true: the event has a buffer and it is not empty
event_buffer_true(event) ==
    event \in DOMAIN event_queues /\ Len(heap[event_queues[event]]) > 0

\* e(data, **kwargs): the positional arguments of the record are left out
ListenerCallsNoArgs(a, ev) ==
    LET snap == active_listeners[a.event]
    IN { [act |-> a.id, listener |-> snap[i], args |-> <<ev.data>>,
          kwargs |-> ev.kwargs, st |-> "created"] : i \in DOMAIN snap }

\* e(data, *args): the keyword arguments of the record are left out
ListenerCallsNoKwargs(a, ev) ==
    LET snap == active_listeners[a.event]
    IN { [act |-> a.id, listener |-> snap[i], args |-> <<ev.data>> \o ev.args,
          kwargs |-> {}, st |-> "created"] : i \in DOMAIN snap }

\* only active_listeners[event][0] is called
ListenerCallsFirstOnly(a, ev) ==
    LET snap == active_listeners[a.event]
    IN { [act |-> a.id, listener |-> snap[i], args |-> <<ev.data>> \o ev.args,
          kwargs |-> ev.kwargs, st |-> "created"] : i \in DOMAIN snap \cap {1} }

\* "tasks = [e(data, *args, **kwargs) for e in active_listeners[event]]": one
\* coroutine per listener registered now, called with the record's values
ListenerCalls(a, ev) ==
    LET snap == active_listeners[a.event]
    IN { [act |-> a.id, listener |-> snap[i], args |-> <<ev.data>> \o ev.args,
          kwargs |-> ev.kwargs, st |-> "created"] : i \in DOMAIN snap }

\* an empty list of listeners treated as an error of the activation
AfterPopNeedsListener(a, calls) ==
    [a EXCEPT !.st = IF calls = {} THEN "failed"
                     ELSE IF a.queuing THEN "waiting" ELSE "done",
              !.exec = IF calls = {} THEN "none" ELSE "waiting"]

\* "await self.exec(tasks)" whatever self.queuing is
AfterPopAwaits(a, calls) ==
    [a EXCEPT !.st = IF calls # {} THEN "waiting" ELSE "done",
              !.exec = IF calls = {} THEN "done" ELSE "waiting"]

\* What run_one_sequence does with the coroutines: with queuing it awaits
\* exec(tasks), without it leaves exec(tasks) to a task of its own and returns.
\* asyncio.gather() of no coroutines is done at once.
AfterPop(a, calls) ==
    [a EXCEPT !.st = IF a.queuing /\ calls # {} THEN "waiting" ELSE "done",
              !.exec = IF calls = {} THEN "done" ELSE "waiting"]

\* run_one_sequence up to its first suspension
run_one_sequence(a) ==
    /\ a.st = "created"
    /\ \/ /\ event_buffer_true(a.event)
          /\ LET b == event_queues[a.event]
                 got == get_next_event(heap[b])
             IN IF got.raised = "no"
                THEN LET calls == ListenerCalls(a, got.event)
                     IN /\ heap' = [heap EXCEPT ![b] = got.rest]
                        /\ popped' = [popped EXCEPT ![b] = Append(@, got.event)]
                        /\ tasks' = tasks \cup calls
                        /\ acts' = (acts \ {a}) \cup
                              { [AfterPop(a, calls) EXCEPT
                                    !.data = got.event.data,
                                    !.snapshot = active_listeners[a.event]] }
                ELSE /\ acts' = (acts \ {a}) \cup { [a EXCEPT !.st = got.raised] }
                     /\ UNCHANGED << heap, popped, tasks >>
       \/ /\ ~event_buffer_true(a.event)
          /\ acts' = (acts \ {a}) \cup { [a EXCEPT !.st = "done"] }
          /\ UNCHANGED << heap, popped, tasks >>
    /\ UNCHANGED << connection_status, running_loop, queuing, event_queues,
                    handle, workers, active_listeners, listener, ticks, added >>
    /\ UNCHANGED http

\* Worker.exec: "await asyncio.gather(*tasks)". gather ends with the first
\* exception of a task, and otherwise when all tasks are done; it leaves the
\* other tasks running when one raises.
gather(ts) ==
    IF \E t \in ts : t.st = "failed" THEN "failed"
    ELSE IF \A t \in ts : t.st = "done" THEN "done"
    ELSE "waiting"

\* exec and, with queuing, run_one_sequence resume when gather ends
Resume(a, ts) ==
    IF a.exec # "waiting" THEN a
    ELSE [a EXCEPT !.exec = gather(ts),
                   !.st = IF a.st = "waiting" THEN gather(ts) ELSE a.st]

TasksOf(ts, id) == { t \in ts : t.act = id }

\* ------------------------------------------------------- listener dispatch
\* The listener's coroutine starts: it calls the callback
StartDispatch(t) ==
    /\ t.st = "created"
    /\ tasks' = (tasks \ {t}) \cup { [t EXCEPT !.st = "running"] }
    /\ UNCHANGED << connection_status, running_loop, queuing, event_queues,
                    heap, handle, workers, active_listeners, listener, acts,
                    ticks, added, popped >>
    /\ UNCHANGED http

\* A single-dispatch listener after its callback: out of the registry,
\* marked dispatched, the call's arguments kept
AfterCallback(t) ==
    IF IsSingle(t.listener)
    THEN [registry |-> Without(active_listeners[event_name(t.listener)], t.listener),
          object |-> [listener[t.listener] EXCEPT
                         !.dispatched = TRUE, !.args = t.args,
                         !.kwargs = t.kwargs]]
    ELSE [registry |-> active_listeners[event_name(t.listener)],
          object |-> listener[t.listener]]

\* A task of gather() ends, returning or raising: the other tasks of the
\* gather stay as they are.
SettleCancels(ts, t, outcome) ==
    { IF u = t THEN [u EXCEPT !.st = outcome]
      ELSE IF outcome = "failed" /\ u.act = t.act /\ u.st \in {"created", "running"}
           THEN [u EXCEPT !.st = "cancelled"]
           ELSE u : u \in ts }

Settle(ts, t, outcome) ==
    { IF u = t THEN [u EXCEPT !.st = outcome] ELSE u : u \in ts }

\* The callback returns: the dispatch is complete
FinishDispatch(t) ==
    /\ t.st = "running"
    /\ tasks' = Settle(tasks, t, "done")
    /\ active_listeners' = [active_listeners EXCEPT
                              ![event_name(t.listener)] = AfterCallback(t).registry]
    /\ listener' = [listener EXCEPT ![t.listener] = AfterCallback(t).object]
    /\ acts' = { IF a.id = t.act THEN Resume(a, TasksOf(tasks', a.id)) ELSE a : a \in acts }
    /\ UNCHANGED << connection_status, running_loop, queuing, event_queues,
                    heap, handle, workers, ticks, added, popped >>
    /\ UNCHANGED http

\* The callback raises: the dispatch fails and the listener stays as it was
FailDispatch(t) ==
    /\ t.st = "running"
    /\ NumFailed < MaxFailures
    /\ tasks' = Settle(tasks, t, "failed")
    /\ acts' = { IF a.id = t.act THEN Resume(a, TasksOf(tasks', a.id)) ELSE a : a \in acts }
    /\ UNCHANGED << connection_status, running_loop, queuing, event_queues,
                    heap, handle, workers, active_listeners, listener, ticks,
                    added, popped >>
    /\ UNCHANGED http

\* ---------------------------------------------------------------- wait_for
\* wait_for(event): a single-dispatch listener is registered and the caller
\* is suspended
WaitFor(l) ==
    /\ IsSingle(l)
    /\ ~listener[l].created
    /\ listener' = [listener EXCEPT ![l].created = TRUE, ![l].wait = "pending"]
    /\ active_listeners' = [active_listeners EXCEPT
                              ![event_name(l)] = Append(@, l)]
    /\ UNCHANGED << connection_status, running_loop, queuing, event_queues,
                    heap, handle, workers, acts, tasks, ticks, added, popped >>
    /\ UNCHANGED http

\* The listener has been dispatched: wait_for returns what it was called with
WaitReturn(l) ==
    /\ listener[l].wait = "pending"
    /\ listener[l].dispatched
    /\ listener' = [listener EXCEPT ![l].wait = "event"]
    /\ UNCHANGED << connection_status, running_loop, queuing, event_queues,
                    heap, handle, workers, active_listeners, acts, tasks,
                    ticks, added, popped >>
    /\ UNCHANGED http

\* The timeout ends with the listener not dispatched, and the listener stays
\* in the registry
WaitTimeoutKeepsListener(l) ==
    /\ listener[l].wait = "pending"
    /\ ~listener[l].dispatched
    /\ listener' = [listener EXCEPT ![l].wait = "timeout"]
    /\ UNCHANGED << connection_status, running_loop, queuing, event_queues,
                    heap, handle, workers, active_listeners, acts, tasks,
                    ticks, added, popped >>
    /\ UNCHANGED http

\* The timeout ends with the listener not dispatched: the listener is taken
\* out of the registry and wait_for fails with the timeout
WaitTimeout(l) ==
    /\ listener[l].wait = "pending"
    /\ ~listener[l].dispatched
    /\ active_listeners' = [active_listeners EXCEPT
                              ![event_name(l)] = Without(@, l)]
    /\ listener' = [listener EXCEPT ![l].wait = "timeout"]
    /\ UNCHANGED << connection_status, running_loop, queuing, event_queues,
                    heap, handle, workers, acts, tasks, ticks, added, popped >>
    /\ UNCHANGED http

\* process_loop marks the connection closed on its way out
LoopExitCloses ==
    /\ running_loop = "running"
    /\ ~LoopGoesOn
    /\ running_loop' = "done"
    /\ connection_status' = "CLOSED"
    /\ UNCHANGED << queuing, event_queues, heap, handle,
                    workers, active_listeners, listener, acts, tasks, ticks,
                    added, popped >>
    /\ UNCHANGED http

\* process_loop cancels on its way out the run_one_sequence tasks that have
\* not started and the listener calls that are not complete
LoopExitCancels ==
    /\ running_loop = "running"
    /\ ~LoopGoesOn
    /\ running_loop' = "done"
    /\ acts' = { a \in acts : a.st # "created" }
    /\ tasks' = { IF t.st \in {"created", "running"}
                  THEN [t EXCEPT !.st = "cancelled"] ELSE t : t \in tasks }
    /\ UNCHANGED << connection_status, queuing, event_queues, heap, handle,
                    workers, active_listeners, listener, ticks, added, popped >>
    /\ UNCHANGED http

\* process_loop also returns when a run_one_sequence task has failed
LoopExitOnFailure ==
    /\ running_loop = "running"
    /\ ~LoopGoesOn \/ \E a \in acts : a.st = "failed"
    /\ running_loop' = "done"
    /\ UNCHANGED << connection_status, queuing, event_queues, heap, handle,
                    workers, active_listeners, listener, acts, tasks, ticks,
                    added, popped >>
    /\ UNCHANGED http

\* process_loop finds the connection closing or closed and returns
LoopExit ==
    /\ running_loop = "running"
    /\ ~LoopGoesOn
    /\ running_loop' = "done"
    /\ UNCHANGED << connection_status, queuing, event_queues, heap, handle,
                    workers, active_listeners, listener, acts, tasks, ticks,
                    added, popped >>
    /\ UNCHANGED http

\* Code outside the broker assigns client.queuing
SetQueuing(q) ==
    /\ q # queuing
    /\ queuing' = q
    /\ UNCHANGED << connection_status, running_loop, event_queues, heap,
                    handle, workers, active_listeners, listener, acts, tasks,
                    ticks, added, popped, http >>

\* The connection, outside the broker, changes its status
SetStatus(s) ==
    /\ s # connection_status
    /\ connection_status' = s
    /\ UNCHANGED << running_loop, queuing, event_queues, heap, handle,
                    workers, active_listeners, listener, acts, tasks, ticks,
                    added, popped >>
    /\ UNCHANGED http

\* -------------------------------------------------------------- HTTPClient
\* gateway/http.py.  http.calls is the sequence of the calls made so far;
\* call i has
\*   via      the method of HTTPClient the caller invoked
\*   method   the HTTP method raw_request was given, "none" if it never ran
\*   st       "gather" while raw_request awaits its two tasks, then
\*            "returned", or "raised" if the call ended with an exception
\*   req      the task raw_request stored in self._request: "pending", then
\*            "resp" (it returned the response), "None" or "cancelled"
\*   status   the response the server gave: "ok" is 200 or 202 without an
\*            error body, "failed" any other
\*   handler  the _time_out_handler task: "polling", then "done"
\*   result   what the call gave its caller
\* http.request is the call whose task self._request holds.
NumCalls == Len(http.calls)

Wrappers == {"post", "put", "patch"}
Methods == {"GET", "POST", "PUT", "PATCH"}
Responses == {"ok", "failed", "exception"}

method_of(w) ==
    CASE w = "post" -> "POST"
      [] w = "put" -> "PUT"
      [] w = "patch" -> "PATCH"
      [] OTHER -> "GET"

\* The names post(), put() and patch() can read: their parameters and the
\* names http.py binds at module level
Parameters == {"self", "endpoint", "json", "timeout", "kwargs"}
Globals == {"asyncio", "aiohttp", "logging", "sys", "time", "json_decoder",
            "Optional", "errs", "logger", "request_url_format",
            "HTTPClient"}

\* The names the argument list of their call to raw_request reads
Arguments == {"self", "endpoint", "json", "timeout", "headers", "kwargs"}

\* Evaluating the argument list raises NameError on a name that is not bound
NameError == ~(Arguments \subseteq Parameters \cup Globals)

NewCall(via, method) ==
    [via |-> via, method |-> method, st |-> "gather", req |-> "pending",
     status |-> "none", handler |-> "polling", result |-> "pending"]

FailedCall(via, exception) ==
    [via |-> via, method |-> "none", st |-> "raised", req |-> "none",
     status |-> "none", handler |-> "none", result |-> exception]

\* raw_request up to its await: the two tasks are created and the request
\* task is stored in self._request
raw_request(via, method) ==
    [http EXCEPT !.calls = Append(@, NewCall(via, method)),
                 !.request = NumCalls + 1]

\* connect(): the session is created, http_ready set and request("/users/@me")
\* issued through raw_request
connect ==
    /\ NumCalls < MaxCalls
    /\ ~http.http_ready
    /\ http' = [raw_request("connect", "GET") EXCEPT !.http_ready = TRUE]
    /\ UNCHANGED << connection_status, running_loop, queuing, event_queues,
                    heap, handle, workers, active_listeners, listener, acts,
                    tasks, ticks, added, popped >>

\* close(): the session is closed and http_ready cleared
close ==
    /\ http.http_ready
    /\ http' = [http EXCEPT !.http_ready = FALSE]
    /\ UNCHANGED << connection_status, running_loop, queuing, event_queues,
                    heap, handle, workers, active_listeners, listener, acts,
                    tasks, ticks, added, popped >>

\* A caller invokes raw_request itself
RawCall(method) ==
    /\ NumCalls < MaxCalls
    /\ http' = raw_request("raw_request", method)
    /\ UNCHANGED << connection_status, running_loop, queuing, event_queues,
                    heap, handle, workers, active_listeners, listener, acts,
                    tasks, ticks, added, popped >>

\* post(), put() and patch(): the arguments are evaluated, then raw_request
\* is called and its result returned
Wrapper(w) ==
    /\ NumCalls < MaxCalls
    /\ http' = IF NameError
               THEN [http EXCEPT
                       !.calls = Append(@, FailedCall(w, "NameError"))]
               ELSE raw_request(w, method_of(w))
    /\ UNCHANGED << connection_status, running_loop, queuing, event_queues,
                    heap, handle, workers, active_listeners, listener, acts,
                    tasks, ticks, added, popped >>

\* What the _request coroutine returns when the server answers with o: the
\* response whatever its status, None after an exception of the session, and
\* None without asking when the client is not ready
request_result(o) ==
    IF http.http_ready
    THEN IF o = "exception"
         THEN [req |-> "None", status |-> "none"]
         ELSE [req |-> "resp", status |-> o]
    ELSE [req |-> "None", status |-> "none"]

\* The task of _request of call i runs to its end
request_task(i, o) ==
    /\ i \in DOMAIN http.calls
    /\ http.calls[i].req = "pending"
    /\ http' = [http EXCEPT !.calls[i].req = request_result(o).req,
                            !.calls[i].status = request_result(o).status]
    /\ UNCHANGED << connection_status, running_loop, queuing, event_queues,
                    heap, handle, workers, active_listeners, listener, acts,
                    tasks, ticks, added, popped >>

\* One wake-up of _time_out_handler of call i that ends its loop: the task
\* in self._request is done, or the time limit of call i has passed (late)
\* and the task in self._request is cancelled.  A wake-up that finds neither
\* sleeps again and changes nothing.
time_out_handler(i, late) ==
    /\ i \in DOMAIN http.calls
    /\ http.calls[i].handler = "polling"
    /\ LET done == http.calls[http.request].req # "pending"
       IN /\ done \/ late
          /\ http' = IF done
                     THEN [http EXCEPT !.calls[i].handler = "done"]
                     ELSE [http EXCEPT !.calls[i].handler = "done",
                                       !.calls[http.request].req = "cancelled"]
    /\ UNCHANGED << connection_status, running_loop, queuing, event_queues,
                    heap, handle, workers, active_listeners, listener, acts,
                    tasks, ticks, added, popped >>

\* asyncio.gather(self._request, handler) of call i is over: with
\* CancelledError as soon as the request task is cancelled, with both results
\* once both tasks are done
GatherDone(i) ==
    \/ http.calls[i].req = "cancelled"
    \/ http.calls[i].req \in {"resp", "None"} /\ http.calls[i].handler = "done"

\* raw_request of call i returns resp[0], or None after CancelledError.
\* request() then returns the decoded body or None to connect(), which on an
\* exception of the decoding (bad) clears http_ready and raises.
RawReturn(i, bad) ==
    /\ i \in DOMAIN http.calls
    /\ http.calls[i].st = "gather"
    /\ GatherDone(i)
    /\ LET resp == IF http.calls[i].req = "resp" THEN "resp" ELSE "None"
       IN IF http.calls[i].via = "connect" /\ resp = "resp"
             /\ http.calls[i].status = "failed" /\ bad
          THEN http' = [http EXCEPT !.calls[i].st = "raised",
                                    !.calls[i].result = "UnableToCreateSession",
                                    !.http_ready = FALSE]
          ELSE http' = [http EXCEPT !.calls[i].st = "returned",
                                    !.calls[i].result = resp]
    /\ UNCHANGED << connection_status, running_loop, queuing, event_queues,
                    heap, handle, workers, active_listeners, listener, acts,
                    tasks, ticks, added, popped >>

Init ==
    /\ connection_status = "OPEN"
    /\ running_loop = "None"
    /\ queuing \in BOOLEAN
    /\ event_queues = << >>
    /\ heap = << >>
    /\ handle = << >>
    /\ workers = << >>
    /\ active_listeners = [e \in EventTypes |-> << >>]
    /\ listener = [l \in Listeners |->
                     [created |-> FALSE, dispatched |-> FALSE,
                      args |-> << >>, kwargs |-> {}, wait |-> "none",
                      raised |-> "no"]]
    /\ acts = {}
    /\ tasks = {}
    /\ ticks = 0
    /\ added = << >>
    /\ popped = << >>
    /\ http = [http_ready |-> FALSE, request |-> 0, calls |-> << >>]

\* The dispatch runtime with two multi-dispatch listeners
Next ==
    \/ Run
    \/ Ingest("message_create")
    \/ \E l \in {"A", "B"} : Register(l)
    \/ \E l \in {"A", "B"} : Remove(l)
    \/ Tick
    \/ \E a \in acts : run_one_sequence(a)
    \/ \E t \in tasks : StartDispatch(t)
    \/ \E t \in tasks : FinishDispatch(t)
    \/ \E t \in tasks : FailDispatch(t)

Spec == Init /\ [][Next]_vars

\* The dispatch runtime with a multi-dispatch and a single-dispatch listener
NextSingle ==
    \/ Run
    \/ Ingest("message_create")
    \/ \E l \in {"A", "S"} : Register(l)
    \/ \E l \in {"A", "S"} : Remove(l)
    \/ Tick
    \/ \E a \in acts : run_one_sequence(a)
    \/ \E t \in tasks : StartDispatch(t)
    \/ \E t \in tasks : FinishDispatch(t)
    \/ \E t \in tasks : FailDispatch(t)

SpecSingle == Init /\ [][NextSingle]_vars

\* The buffers under two call sites of get_buffer, no listener registered
NextBuffers ==
    \/ Run
    \/ \E c \in Callers, e \in EventTypes : GetBuffer(c, e)
    \/ \E c \in Callers : Add(c)
    \/ Tick
    \/ \E a \in acts : run_one_sequence(a)

InitBuffers == Init /\ ~queuing

\* The buffers under callers that add to them and pop from them directly
NextPop ==
    \/ \E c \in Callers, e \in EventTypes : GetBuffer(c, e)
    \/ \E c \in Callers : Add(c)
    \/ \E c \in Callers : Pop(c)

SpecPop == InitBuffers /\ [][NextPop]_vars

SpecBuffers == InitBuffers /\ [][NextBuffers]_vars

\* The runtime with one listener while the connection changes its status
NextShutdown ==
    \/ Run
    \/ \E e \in EventTypes : Ingest(e)
    \/ Register("A")
    \/ Tick
    \/ \E a \in acts : run_one_sequence(a)
    \/ \E t \in tasks : StartDispatch(t)
    \/ \E t \in tasks : FinishDispatch(t)
    \/ \E t \in tasks : FailDispatch(t)
    \/ \E s \in Status : SetStatus(s)
    \/ LoopExit

SpecShutdown == Init /\ [][NextShutdown]_vars

\* The scheduler alone while the connection changes its status. The event
\* loop runs the process_loop task again after each sleep, so the loop
\* condition is evaluated again for as long as the task has not returned.
NextClose ==
    \/ Run
    \/ \E e \in EventTypes : Ingest(e)
    \/ Tick
    \/ \E a \in acts : run_one_sequence(a)
    \/ \E s \in Status : SetStatus(s)
    \/ LoopExit

SpecClose == InitBuffers /\ [][NextClose]_vars

FairClose == SpecClose /\ WF_vars(LoopExit)

\* The dispatch runtime with one wait_for call on message_create
NextWait ==
    \/ Run
    \/ Ingest("message_create")
    \/ WaitFor("S")
    \/ WaitReturn("S")
    \/ WaitTimeout("S")
    \/ Tick
    \/ \E a \in acts : run_one_sequence(a)
    \/ \E t \in tasks : StartDispatch(t)
    \/ \E t \in tasks : FinishDispatch(t)

SpecWait == Init /\ [][NextWait]_vars

\* The runtime with one listener under the event loop's scheduling: the loop
\* task wakes from every sleep, and a task that create_task() has made is run.
NextLive ==
    \/ Run
    \/ \E e \in EventTypes : Ingest(e)
    \/ Register("A")
    \/ TickInOrder
    \/ \E a \in acts : run_one_sequence(a)
    \/ \E t \in tasks : StartDispatch(t)
    \/ \E s \in {"OPEN", "CLOSING"} : SetStatus(s)
    \/ LoopExit

FairLive ==
    /\ Init
    /\ [][NextLive]_vars
    /\ WF_vars(TickInOrder)
    /\ WF_vars(\E a \in acts : run_one_sequence(a))
    /\ WF_vars(\E t \in tasks : StartDispatch(t))

\* The dispatch runtime with a listener on each of the two event types
NextTypes ==
    \/ Run
    \/ \E e \in EventTypes : Ingest(e)
    \/ \E l \in {"A", "R"} : Register(l)
    \/ Tick
    \/ \E a \in acts : run_one_sequence(a)
    \/ \E t \in tasks : StartDispatch(t)
    \/ \E t \in tasks : FinishDispatch(t)

SpecTypes == Init /\ [][NextTypes]_vars

\* The registry under listeners created with and without a coroutine
NextCreate ==
    \/ \E l \in Listeners, coro \in Coros : Create(l, coro)
    \/ \E l \in Listeners : Remove(l)

SpecCreate == Init /\ [][NextCreate]_vars

\* Two event types with client.queuing assigned during the run
NextQueuing ==
    \/ Run
    \/ \E e \in EventTypes : Ingest(e)
    \/ \E l \in {"A", "R"} : Register(l)
    \/ \E q \in BOOLEAN : SetQueuing(q)
    \/ Tick
    \/ \E a \in acts : run_one_sequence(a)
    \/ \E t \in tasks : StartDispatch(t)
    \/ \E t \in tasks : FinishDispatch(t)

SpecQueuing == Init /\ [][NextQueuing]_vars

\* One caller that adds through its handle while a listener registers and
\* the workers pop
NextAdd ==
    \/ Run
    \/ \E e \in EventTypes : GetBuffer("gateway", e)
    \/ Add("gateway")
    \/ Register("A")
    \/ Tick
    \/ \E a \in acts : run_one_sequence(a)

SpecAdd == InitBuffers /\ [][NextAdd]_vars

\* Two listeners that register during the run and are never removed
NextSnapshot ==
    \/ Run
    \/ Ingest("message_create")
    \/ \E l \in {"A", "B"} : Register(l)
    \/ Tick
    \/ \E a \in acts : run_one_sequence(a)
    \/ \E t \in tasks : StartDispatch(t)
    \/ \E t \in tasks : FinishDispatch(t)

SpecSnapshot == Init /\ [][NextSnapshot]_vars

\* The HTTPClient alone: connect, close and the calls of its request methods
NextHttp ==
    \/ connect
    \/ close
    \/ \E m \in Methods : RawCall(m)
    \/ \E w \in Wrappers : Wrapper(w)
    \/ \E i \in 1..MaxCalls, o \in Responses : request_task(i, o)
    \/ \E i \in 1..MaxCalls, late \in BOOLEAN : time_out_handler(i, late)
    \/ \E i \in 1..MaxCalls, bad \in BOOLEAN : RawReturn(i, bad)

SpecHttp == Init /\ [][NextHttp]_vars

\* ------------------------------------------------------------------ claims
ActOf(t) == CHOOSE a \in acts : a.id = t.act

Begun(t) == t.st # "created"

Complete(t) == t.st \in {"done", "failed"}

Registered(l) == l \in Range(active_listeners[event_name(l)])

Removed(l) == listener[l].created /\ ~Registered(l)

\* The record get_next_event() returned with this data
PoppedRecord(data) ==
    CHOOSE r \in UNION { Range(popped[b]) : b \in DOMAIN popped } : r.data = data

Closing == connection_status \in {"CLOSING", "CLOSED"}

ActIds(as) == { a.id : a \in as }

\* C1: for every buffer, the records get_next_event() has returned so far, in
\* the order it returned them, followed by the records still in the buffer are
\* exactly the records add() appended to it, in the order they were added.
C1_Fifo == \A b \in DOMAIN heap : added[b] = popped[b] \o heap[b]

\* Two records of one buffer were returned, and a record added between them
\* went to another buffer.
C1_Witness ==
    \E b \in DOMAIN heap, c \in DOMAIN heap :
        /\ b # c
        /\ Len(popped[b]) = 2
        /\ Len(added[c]) > 0
        /\ popped[b][1].data < added[c][1].data
        /\ added[c][1].data < popped[b][2].data

\* C2: with queuing, a listener call for a later event of a type has not begun
\* unless every listener call of every earlier event of the type is complete.
C2_QueuingOneEventInFlight ==
    \A t1 \in tasks, t2 \in tasks :
        ( /\ ActOf(t1).queuing /\ ActOf(t2).queuing
          /\ ActOf(t1).event = ActOf(t2).event
          /\ ActOf(t1).data < ActOf(t2).data
          /\ Begun(t2) ) => Complete(t1)

\* C3: the callback of a single-dispatch listener has been invoked at most
\* once, and once a dispatch of it is done it is not in the registry.
C3_SingleInvokedOnce ==
    \A l \in Listeners : IsSingle(l) =>
        /\ Cardinality({ t \in tasks : t.listener = l /\ Begun(t) }) <= 1
        /\ (\E t \in tasks : t.listener = l /\ t.st = "done") => ~Registered(l)

\* C4: the buffer a get_buffer(e) call returned is the buffer stored in
\* event_queues[e], whatever get_buffer(e) calls came after it.
C4_SameBufferForType ==
    \A c \in DOMAIN handle : event_queues[handle[c].event] = handle[c].buffer

\* C5: every record added to a buffer is either still in that buffer, once,
\* and popped by no run_one_sequence, or in it no more and popped by exactly
\* one run_one_sequence.
C5_PoppedOnce ==
    \A b \in DOMAIN heap : \A i \in DOMAIN added[b] :
        LET r == added[b][i]
            poppers == { a \in acts : a.data = r.data }
            places == { j \in DOMAIN heap[b] : heap[b][j] = r }
        IN /\ Cardinality(poppers) + Cardinality(places) = 1
           /\ \A c \in DOMAIN heap \ {b} : r \notin Range(heap[c])

\* A run_one_sequence of a later tick has popped its event while one of an
\* earlier tick for the same type has not started yet.
C5_Witness ==
    \E a1 \in acts, a2 \in acts :
        /\ a1.event = a2.event
        /\ a1.id[1] < a2.id[1]
        /\ a1.st = "created"
        /\ a2.data # 0

\* C6: the step in which a run_one_sequence pops takes the oldest record off
\* its buffer and creates exactly one call for every listener registered for
\* the type, with the record's data, args and kwargs; no listener ever has two
\* calls for one event.
C6_PopDispatchesAll ==
    /\ [](\A a \in acts : \A l \in Listeners :
             Cardinality({ t \in tasks : t.act = a.id /\ t.listener = l }) <= 1)
    /\ [][\A a \in acts : \A a2 \in acts' :
            (a.id = a2.id /\ a.data = 0 /\ a2.data # 0) =>
                LET b == event_queues[a.event]
                    r == Head(heap[b])
                    ls == Range(active_listeners[a.event])
                IN /\ heap'[b] = Tail(heap[b])
                   /\ r.data = a2.data
                   /\ { t.listener : t \in tasks' \ tasks } = ls
                   /\ \A t \in tasks' \ tasks :
                         /\ t.act = a.id
                         /\ t.args = <<r.data>> \o r.args
                         /\ t.kwargs = r.kwargs]_vars

\* Listeners A and B were both called for an event that came with args and
\* kwargs, both calls are done and the buffer is empty.
C6_Witness ==
    \E a \in acts :
        /\ a.data = 1
        /\ Range(a.snapshot) = {"A", "B"}
        /\ \A l \in {"A", "B"} : \E t \in tasks :
              t.act = a.id /\ t.listener = l /\ t.st = "done"
        /\ Len(heap[event_queues[a.event]]) = 0

\* C7: a multi-dispatch listener has exactly one call for every event popped
\* while it was registered and none for an event popped while it was not, and
\* no step of a worker or of a call takes it out of the registry.
C7_PersistentStays ==
    /\ [](\A a \in acts : \A l \in Listeners : ~IsSingle(l) =>
             Cardinality({ t \in tasks : t.act = a.id /\ t.listener = l })
                = IF a.data # 0 /\ l \in Range(a.snapshot) THEN 1 ELSE 0)
    /\ [][\A l \in Listeners :
            (~IsSingle(l) /\ Registered(l) /\ ~Registered(l)') =>
                (tasks' = tasks /\ acts' = acts /\ heap' = heap)]_vars

\* A multi-dispatch listener was called for two events, both calls are done
\* and it is still registered.
C7_Witness ==
    \E l \in Listeners :
        /\ ~IsSingle(l)
        /\ Registered(l)
        /\ Cardinality({ t \in tasks : t.listener = l /\ t.st = "done" }) = 2

\* C8: a call of a multi-dispatch listener that has not begun when the
\* listener is out of the registry does not begin.
C8_NoStartAfterRemoval ==
    [][\A t \in tasks :
          (~IsSingle(t.listener) /\ Removed(t.listener) /\ t.st = "created")
              => t \in tasks']_vars

\* C9: the step that completes a call of a single-dispatch listener leaves
\* the registry as it was without the listener, the listener marked dispatched
\* and holding the positional and keyword arguments of that call; a dispatched
\* listener is not in the registry.
C9_SingleAfterDispatch ==
    /\ [](\A l \in Listeners :
             (IsSingle(l) /\ listener[l].dispatched) => ~Registered(l))
    /\ [][\A t \in tasks :
            ( /\ IsSingle(t.listener)
              /\ t.st = "running"
              /\ [t EXCEPT !.st = "done"] \in tasks' ) =>
                LET l == t.listener
                    r == PoppedRecord(ActOf(t).data)
                IN /\ active_listeners'[event_name(l)]
                        = Without(active_listeners[event_name(l)], l)
                   /\ listener'[l].dispatched
                   /\ listener'[l].args = <<r.data>> \o r.args
                   /\ listener'[l].kwargs = r.kwargs]_vars

\* The single-dispatch listener was registered after A, its call for the
\* first event is done, and the registry holds A alone again.
C9_Witness ==
    /\ listener["S"].dispatched
    /\ listener["S"].args = <<1, "test">>
    /\ listener["S"].kwargs = {<<"test", "test">>}
    /\ active_listeners["message_create"] = <<"A">>
    /\ \E a \in acts : a.snapshot = <<"A", "S">>

\* C10: when a call has failed, every listener registered when the event was
\* popped has its call, no call of the event is cancelled, and every call of
\* the event that is not complete can take its next step.
C10_SiblingsRun ==
    \A t \in tasks : t.st = "failed" =>
        /\ { u.listener : u \in TasksOf(tasks, t.act) } = Range(ActOf(t).snapshot)
        /\ \A u \in TasksOf(tasks, t.act) :
              /\ u.st \in {"created", "running", "done", "failed"}
              /\ u.st = "created" => ENABLED StartDispatch(u)
              /\ u.st = "running" => ENABLED FinishDispatch(u)

\* With queuing, A's call failed, exec failed with it, and B's call for the
\* same event is done.
C10_Witness ==
    \E t \in tasks, u \in tasks :
        /\ t.act = u.act
        /\ t.listener = "A" /\ t.st = "failed"
        /\ u.listener = "B" /\ u.st = "done"
        /\ ActOf(t).queuing /\ ActOf(t).st = "failed"

\* C11: a failed listener call does not stop the scheduler. While a call has
\* failed: the running loop can start its next iteration whenever the
\* connection is neither CLOSING nor CLOSED and a record is waiting; every
\* activation and call already created can take its step; and an activation
\* that runs with a record waiting pops the head record and creates a call
\* for every registered listener. The loop returns only on a CLOSING or CLOSED
\* connection, and the Worker of an event type is never replaced.
C11_FailureKeepsLoop ==
    /\ []((\E t \in tasks : t.st = "failed") =>
            /\ ( /\ running_loop = "running"
                 /\ ~Closing
                 /\ ticks < MaxTicks
                 /\ \E e \in DOMAIN event_queues :
                        Len(heap[event_queues[e]]) > 0 ) => ENABLED Tick
            /\ \A a \in acts : a.st = "created" => ENABLED run_one_sequence(a)
            /\ \A u \in tasks : u.st = "created" => ENABLED StartDispatch(u))
    /\ [][\A a \in acts :
            ( /\ \E t \in tasks : t.st = "failed"
              /\ a.st = "created"
              /\ a \notin acts'
              /\ a.event \in DOMAIN event_queues
              /\ Len(heap[event_queues[a.event]]) > 0 ) =>
                \E b \in acts' :
                    /\ b.id = a.id
                    /\ b.data = Head(heap[event_queues[a.event]]).data
                    /\ heap'[event_queues[a.event]]
                          = Tail(heap[event_queues[a.event]])
                    /\ \A l \in Range(active_listeners[a.event]) :
                          \E u \in tasks' : u.act = a.id /\ u.listener = l]_vars
    /\ [][running_loop = "running" /\ running_loop' # "running" => Closing]_vars
    /\ [][\A e \in DOMAIN workers :
            e \in DOMAIN workers' /\ workers'[e] = workers[e]]_vars

\* With queuing, A's call for the first event has failed and its activation
\* with it; the loop is running, the connection is open, and the second
\* iteration's activation has popped the second event of the type with the
\* Worker of the first, and A's call for it is done.
C11_Witness ==
    /\ running_loop = "running"
    /\ connection_status = "OPEN"
    /\ \E t \in tasks, u \in tasks :
          /\ t.st = "failed" /\ ActOf(t).data = 1 /\ ActOf(t).st = "failed"
          /\ ActOf(t).id = <<1, "message_create">>
          /\ u.st = "done" /\ ActOf(u).data = 2
          /\ ActOf(u).id = <<2, "message_create">>
          /\ ActOf(u).queuing = workers["message_create"].queuing

\* C12: no run_one_sequence task ends with an exception: a failed listener
\* call leaves its activation created, waiting or done, never failed.
C12_ActivationEndsNormally == \A a \in acts : a.st # "failed"

\* C13: with queuing, a run_one_sequence task that has ended, normally or
\* not, has no listener call of its event that is still to start or still
\* running.
C13_QueuingWaitsForAll ==
    \A a \in acts : (a.queuing /\ a.st \in {"done", "failed"}) =>
        \A t \in TasksOf(tasks, a.id) : Complete(t)

\* C14: without queuing a run_one_sequence task is never suspended and never
\* fails: the step that pops the event creates the listener calls, none of
\* them started, and ends the task.
C14_NoQueuingReturnsAtOnce ==
    /\ [](\A a \in acts : ~a.queuing => a.st \in {"created", "done"})
    /\ [][\A a \in acts :
            (~a.queuing /\ a.st = "created" /\ a \notin acts') =>
                /\ \E b \in acts' : b.id = a.id /\ b.st = "done"
                /\ \A t \in TasksOf(tasks', a.id) : t.st = "created"]_vars

\* Without queuing, two events of the type were pending: A's call for the
\* second event has started while A's call for the first is still running.
C14_Witness ==
    /\ ~queuing
    /\ \E t \in tasks, u \in tasks :
          /\ t.listener = "A" /\ u.listener = "A"
          /\ ActOf(t).data = 1 /\ ActOf(u).data = 2
          /\ ActOf(t).event = ActOf(u).event
          /\ t.st = "running"
          /\ Begun(u)
          /\ ActOf(t).st = "done" /\ ActOf(u).st = "done"

\* C15: process_loop starts worker activations only while it is running and
\* the connection is neither CLOSING nor CLOSED; it returns only when it finds
\* the connection CLOSING or CLOSED, and it can return whenever it does; once
\* it has returned it stays returned and no activation is started any more;
\* and if the connection stays CLOSING or CLOSED the running loop returns.
C15_LoopEndsOnClose ==
    /\ [][ActIds(acts') # ActIds(acts) =>
            running_loop = "running" /\ ~Closing]_vars
    /\ [][running_loop' # running_loop /\ running_loop # "None" =>
            running_loop = "running" /\ running_loop' = "done" /\ Closing]_vars
    /\ [](running_loop = "running" /\ Closing => ENABLED LoopExit)
    /\ []((running_loop = "running" /\ [] Closing) => <>(running_loop = "done"))

\* The loop has returned with a record still in a buffer, and the connection
\* is open again.
C15_Witness ==
    /\ running_loop = "done"
    /\ connection_status = "OPEN"
    /\ \E b \in DOMAIN heap : Len(heap[b]) > 0

\* C16: nothing is cancelled at shutdown. A step that changes the connection
\* status or ends the loop leaves activations, listener calls and buffers as
\* they are; no activation and no listener call is ever dropped or put in
\* another state than created, running, done or failed, and a complete call
\* stays as it is. While the connection is CLOSING or CLOSED or the loop has
\* returned, every activation and call that is not complete can take its next
\* step, and an activation that runs with a record waiting pops the head
\* record and creates a call for every registered listener.
C16_CooperativeShutdown ==
    /\ [][(running_loop' # running_loop \/ connection_status' # connection_status)
            => UNCHANGED << acts, tasks, heap >>]_vars
    /\ [][ /\ \A a \in acts : \E b \in acts' :
                  b.id = a.id /\ (a.st # "created" => b.data = a.data)
           /\ \A t \in tasks : \E u \in tasks' :
                  /\ u.act = t.act /\ u.listener = t.listener
                  /\ u.st \in {"created", "running", "done", "failed"}
                  /\ Complete(t) => u = t ]_vars
    /\ []((Closing \/ running_loop = "done") =>
            /\ \A a \in acts : a.st = "created" => ENABLED run_one_sequence(a)
            /\ \A t \in tasks :
                  /\ t.st = "created" => ENABLED StartDispatch(t)
                  /\ t.st = "running" => ENABLED FinishDispatch(t))
    /\ [][\A a \in acts :
            ( /\ Closing \/ running_loop = "done"
              /\ a.st = "created"
              /\ a \notin acts'
              /\ a.event \in DOMAIN event_queues
              /\ Len(heap[event_queues[a.event]]) > 0 ) =>
                /\ heap'[event_queues[a.event]] = Tail(heap[event_queues[a.event]])
                /\ \E b \in acts' :
                      /\ b.id = a.id
                      /\ b.data = Head(heap[event_queues[a.event]]).data
                      /\ { u.listener : u \in TasksOf(tasks', a.id) }
                            = Range(active_listeners[a.event])]_vars

\* The connection is CLOSED and the loop has returned; the activation of the
\* first iteration has popped its event and A's call for it is running, and
\* the activation of the second iteration has not started yet, its event
\* still in the buffer.
C16_Witness ==
    /\ connection_status = "CLOSED"
    /\ running_loop = "done"
    /\ \E a \in acts, b \in acts, t \in tasks :
          /\ a.id[1] = 1 /\ b.id[1] = 2 /\ a.event = b.event
          /\ t.act = a.id /\ t.listener = "A" /\ t.st = "running"
          /\ b.st = "created"
          /\ Len(heap[event_queues[b.event]]) > 0

\* C17: MessageBroker.running is False while run() has not created the loop
\* task, True while that task has not returned and False once it has; a
\* change of the connection status alone never changes it.
C17_RunningFromTask ==
    /\ [](running_loop = "None" => running = FALSE)
    /\ [](running_loop = "running" => running = TRUE)
    /\ [](running_loop = "done" => running = FALSE)
    /\ [][connection_status' # connection_status => running' = running]_vars

\* running is True although the connection is CLOSED: the loop task has not
\* evaluated its condition again yet.
C17_Witness ==
    /\ running
    /\ connection_status = "CLOSED"
    /\ ENABLED LoopExit

\* C18: a wait_for call ends with the timeout only from its suspension and
\* only while its listener has not been dispatched, and that step takes the
\* listener out of the registry; whenever the call has ended with the timeout
\* the listener is not in the registry; a call that has returned keeps the
\* one outcome it returned with; and a suspended call whose listener has not
\* been dispatched can end with the timeout and cannot return a delivery.
C18_TimeoutRemovesListener ==
    /\ [][\A l \in Listeners :
            (listener[l].wait # "timeout" /\ listener'[l].wait = "timeout") =>
                /\ listener[l].wait = "pending"
                /\ ~listener[l].dispatched
                /\ l \notin Range(active_listeners'[event_name(l)])]_vars
    /\ [](\A l \in Listeners : listener[l].wait = "timeout" => ~Registered(l))
    /\ [][\A l \in Listeners :
            listener[l].wait \in {"event", "timeout"} =>
                listener'[l].wait = listener[l].wait]_vars
    /\ [](\A l \in Listeners :
             (listener[l].wait = "pending" /\ ~listener[l].dispatched) =>
                 ENABLED WaitTimeout(l) /\ ~ENABLED WaitReturn(l))

\* The wait_for call has ended with the timeout: no event was popped while
\* its listener was registered, and the registry is empty again.
C18_Witness ==
    /\ listener["S"].wait = "timeout"
    /\ ~listener["S"].dispatched
    /\ \A t \in tasks : t.listener # "S"
    /\ active_listeners["message_create"] = << >>

\* C19: once a wait_for call has ended with the timeout, no call of its
\* listener starts and the listener is not marked dispatched.
C19_NothingAfterTimeout ==
    [][\A l \in Listeners : listener[l].wait = "timeout" =>
          /\ \A t \in tasks : (t.listener = l /\ t.st = "created") => t \in tasks'
          /\ listener'[l].dispatched = listener[l].dispatched]_vars

\* The first record popped while the listener was in the registry: the call
\* of the listeners that follows wait_for
NextCall(l) ==
    LET called == { a \in acts : l \in Range(a.snapshot) }
        first == CHOOSE a \in called : \A b \in called : a.data <= b.data
    IN PoppedRecord(first.data)

\* C20: when a suspended wait_for call returns, what it returns are the
\* arguments of the first call of the listeners after wait_for, and its
\* listener is not in the registry.
C20_ReturnsNextCall ==
    [][\A l \in Listeners :
          (listener[l].wait = "pending" /\ listener'[l].wait = "event") =>
              /\ listener[l].args = <<NextCall(l).data>> \o NextCall(l).args
              /\ listener[l].kwargs = NextCall(l).kwargs
              /\ ~Registered(l)]_vars

\* The record with this data is in a buffer
InBuffer(d) == \E b \in DOMAIN heap : \E i \in DOMAIN heap[b] : heap[b][i].data = d

\* The record with this data has been popped by an activation, and every
\* listener registered then has been called with it
Delivered(d) ==
    /\ ~InBuffer(d)
    /\ \E a \in acts :
          /\ a.data = d
          /\ \A l \in Range(a.snapshot) :
                \E t \in tasks : t.act = a.id /\ t.listener = l /\ Begun(t)

\* C21: a record that is in a buffer while the loop is running, with the
\* connection never CLOSING or CLOSED from then on, is eventually popped by an
\* activation of its type and every listener registered at that moment is
\* called with it.
C21_AddedIsDelivered ==
    \A d \in 1..MaxIngest :
        []((InBuffer(d) /\ running_loop = "running" /\ [](~Closing))
              => <>Delivered(d))

\* Both records have been delivered, the second to listener A, with the
\* connection open and the loop running.
C21_Witness ==
    /\ running_loop = "running"
    /\ connection_status = "OPEN"
    /\ Delivered(1)
    /\ Delivered(2)
    /\ \E t \in tasks : ActOf(t).data = 2 /\ t.listener = "A" /\ Begun(t)

\* C22: no run_one_sequence task ends with the IndexError of get_next_event.
C22_NoPopFromEmpty == \A a \in acts : a.st # "IndexError"

\* Two activations of one type were pending at once over a buffer of one
\* record: the activation of the second iteration has popped it, and the
\* activation of the first then found the buffer empty and returned.
C22_Witness ==
    \E a \in acts, c \in acts :
        /\ a.event = c.event
        /\ a.id[1] = 2 /\ a.data > 0
        /\ c.id[1] = 1 /\ c.st = "done" /\ c.data = 0
        /\ NumAdded = 1
        /\ Len(heap[event_queues[a.event]]) = 0

\* C23: a run_one_sequence task that runs while its event type has no buffer
\* or an empty one ends normally without having popped or called anything:
\* buffers, buffer registry, listener registry, listeners, listener calls and
\* worker table are as they were.
C23_EmptyIsNoOp ==
    [][\A a \in acts :
          ( /\ a.st = "created"
            /\ a \notin acts'
            /\ ~( /\ a.event \in DOMAIN event_queues
                  /\ Len(heap[event_queues[a.event]]) > 0 ) ) =>
              /\ \E b \in acts' :
                    b.id = a.id /\ b.st = "done" /\ b.data = 0 /\ b.exec = "none"
              /\ UNCHANGED << heap, event_queues, popped, active_listeners,
                              listener, tasks, workers >>]_vars

\* With the wait_for listener registered and not called, an activation has
\* found the buffer of its type empty and returned.
C23_Witness ==
    /\ Registered("S")
    /\ tasks = {}
    /\ \E a \in acts :
          /\ a.st = "done" /\ a.data = 0
          /\ Len(heap[event_queues[a.event]]) = 0

\* C24: a caller's get_next_event() leaves every other buffer as it is; on an
\* empty buffer it raises IndexError, returns nothing and leaves the buffer
\* empty; on a buffer with records it returns the oldest record and leaves
\* the others in the buffer, in their order.
C24_PopOldestOrFail ==
    [][\A c \in DOMAIN handle :
          ( /\ c \in DOMAIN handle'
            /\ handle[c].raised = "none"
            /\ handle'[c].raised # "none" ) =>
              LET b == handle[c].buffer
              IN /\ \A x \in DOMAIN heap \ {b} : heap'[x] = heap[x]
                 /\ IF Len(heap[b]) = 0
                    THEN /\ handle'[c].raised = "IndexError"
                         /\ handle'[c].got = << >>
                         /\ heap'[b] = << >>
                    ELSE /\ handle'[c].raised = "no"
                         /\ handle'[c].got = << heap[b][1] >>
                         /\ heap'[b] = SubSeq(heap[b], 2, Len(heap[b]))]_vars

\* One caller got the IndexError from an empty buffer; the other got the
\* first of three records of another buffer, which holds the second and the
\* third.
C24_Witness ==
    \E c \in DOMAIN handle, d \in DOMAIN handle :
        /\ handle[c].raised = "IndexError"
        /\ heap[handle[c].buffer] = << >>
        /\ handle[d].raised = "no"
        /\ handle[d].buffer # handle[c].buffer
        /\ handle[d].got = << added[handle[d].buffer][1] >>
        /\ Len(heap[handle[d].buffer]) = 2
        /\ added[handle[d].buffer] = handle[d].got \o heap[handle[d].buffer]

\* C25: the worker table has an entry only for event types of the buffer
\* registry; an entry appears only in an iteration of the loop that finds the
\* type's buffer with a record in it; an entry is never removed or replaced by
\* another Worker; and the activations an iteration creates are those of the
\* Workers in the table.
C25_OneWorkerPerType ==
    /\ [](DOMAIN workers \subseteq DOMAIN event_queues)
    /\ [][\A e \in DOMAIN workers' \ DOMAIN workers :
            /\ ticks' = ticks + 1
            /\ e \in DOMAIN event_queues
            /\ Len(heap[event_queues[e]]) > 0]_vars
    /\ [][\A e \in DOMAIN workers :
            e \in DOMAIN workers' /\ workers'[e] = workers[e]]_vars
    /\ [][\A a \in acts' \ acts :
            a.st = "created" =>
                /\ a.event \in DOMAIN workers'
                /\ a.queuing = workers'[a.event].queuing
                /\ a.event \in DOMAIN workers =>
                      workers'[a.event].made < a.id[1]]_vars
    /\ [](\A a \in acts, b \in acts :
             (a.id[1] = b.id[1] /\ a.event = b.event) => a.id = b.id)

\* The second iteration has made the Worker of "ready" and used again the
\* Worker of message_create, which the first iteration made.
C25_Witness ==
    /\ DOMAIN workers = EventTypes
    /\ workers["message_create"].made = 1
    /\ workers["ready"].made = 2
    /\ \E a \in acts : a.id = <<2, "message_create">>

\* A call of a message_create listener has started and has not returned
SlowCall == \E t \in tasks : event_name(t.listener) = "message_create" /\ t.st = "running"

HasRecord(e) == e \in DOMAIN event_queues /\ Len(heap[event_queues[e]]) > 0

\* C26: while a call of a message_create listener is running, with or without
\* queuing: the running loop can start its next iteration when a "ready"
\* record is waiting, and that iteration creates an activation for "ready";
\* every "ready" activation and every call of a "ready" listener can take its
\* next step; and a "ready" activation that runs with a record waiting pops
\* the head record and creates a call for every listener registered on
\* "ready".
C26_TypesIndependent ==
    /\ [](SlowCall =>
            /\ ( /\ running_loop = "running"
                 /\ ~Closing
                 /\ ticks < MaxTicks
                 /\ HasRecord("ready") ) => ENABLED Tick
            /\ \A a \in acts :
                  (a.event = "ready" /\ a.st = "created") =>
                      ENABLED run_one_sequence(a)
            /\ \A t \in tasks : event_name(t.listener) = "ready" =>
                  /\ t.st = "created" => ENABLED StartDispatch(t)
                  /\ t.st = "running" => ENABLED FinishDispatch(t))
    /\ [][(SlowCall /\ HasRecord("ready") /\ ticks' = ticks + 1) =>
            \E a \in acts' : a.id = <<ticks', "ready">> /\ a.st = "created"]_vars
    /\ [][\A a \in acts :
            ( /\ SlowCall
              /\ a.event = "ready"
              /\ a.st = "created"
              /\ a \notin acts'
              /\ HasRecord("ready") ) =>
                /\ heap'[event_queues["ready"]] = Tail(heap[event_queues["ready"]])
                /\ \E b \in acts' :
                      /\ b.id = a.id
                      /\ b.data = Head(heap[event_queues["ready"]]).data
                      /\ { u.listener : u \in TasksOf(tasks', a.id) }
                            = Range(active_listeners["ready"])]_vars

\* With queuing, A's call for the message_create event of the first
\* iteration is still running and its activation suspended; the second
\* iteration has activated "ready", whose record was added second, and R's
\* call for it is done.
C26_Witness ==
    /\ queuing
    /\ \E t \in tasks, u \in tasks :
          /\ t.listener = "A" /\ t.st = "running"
          /\ ActOf(t).id = <<1, "message_create">> /\ ActOf(t).st = "waiting"
          /\ ActOf(t).data = 1
          /\ u.listener = "R" /\ u.st = "done"
          /\ ActOf(u).id = <<2, "ready">> /\ ActOf(u).data = 2

\* C27: a step that changes the connection status changes nothing else: it
\* is no step of the broker, of the loop, of an activation or of a listener
\* call.
C27_StatusOnlyRead ==
    [][connection_status' # connection_status =>
          UNCHANGED << running_loop, queuing, event_queues, heap, handle,
                       workers, active_listeners, listener, acts, tasks,
                       ticks, added, popped >>]_vars

\* The loop has run both iterations, every activation has ended, a listener
\* call is done, the loop has returned, and the connection is CLOSING as the
\* connection's owner left it.
C27_Witness ==
    /\ connection_status = "CLOSING"
    /\ running_loop = "done"
    /\ ticks = MaxTicks
    /\ \A a \in acts : a.st = "done"
    /\ \E t \in tasks : t.st = "done"

C29_WrappersForward ==
    \A i \in DOMAIN http.calls :
        LET c == http.calls[i]
        IN c.via \in Wrappers =>
              /\ c.st # "raised"
              /\ c.method = method_of(c.via)
              /\ c.st = "returned" =>
                    c.result = (IF c.status = "ok" THEN "resp" ELSE "None")

\* C30: an activation that runs while its buffer holds records removes
\* exactly one record from it, the head, and returns exactly one record, and
\* touches no other buffer; the activations an iteration of the loop creates
\* are at most one per event type, each for a type whose buffer held a record
\* when the iteration began; and no step but an iteration creates an
\* activation.
C30_OnePopOneActivation ==
    [][/\ \A a \in acts :
             ( /\ a.st = "created"
               /\ a \notin acts'
               /\ HasRecord(a.event) ) =>
                 LET b == event_queues[a.event]
                 IN /\ Len(heap'[b]) = Len(heap[b]) - 1
                    /\ heap'[b] = Tail(heap[b])
                    /\ Len(popped'[b]) = Len(popped[b]) + 1
                    /\ \A c \in DOMAIN heap \ {b} :
                          heap'[c] = heap[c] /\ popped'[c] = popped[c]
       /\ \A a, b \in acts' \ acts :
             (a.st = "created" /\ b.st = "created" /\ a.event = b.event)
                => a = b
       /\ \A a \in acts' :
             a.id \notin { b.id : b \in acts } =>
                 /\ ticks' = ticks + 1
                 /\ a.id = <<ticks', a.event>>
                 /\ a.st = "created"
                 /\ HasRecord(a.event)]_vars

\* The first iteration activated "ready" alone and its activation popped the
\* record; the second iteration, with the "ready" buffer empty and a
\* message_create record waiting, activated message_create alone, and that
\* activation popped its record too.
C30_Witness ==
    /\ ticks = 2
    /\ DOMAIN event_queues = EventTypes
    /\ { a.id : a \in acts } = { <<1, "ready">>, <<2, "message_create">> }
    /\ \A a \in acts : a.st # "created" /\ a.data # 0
    /\ \A e \in EventTypes :
          /\ Len(popped[event_queues[e]]) = 1
          /\ Len(heap[event_queues[e]]) = 0

\* C31: the listeners called for an event are exactly those in the registry
\* of its type at the step in which the activation pops it, and the calls of
\* an event that was popped earlier never gain or lose a listener afterwards:
\* a listener registered later is called only for events popped later.
C31_SnapshotAtPop ==
    [][\A a \in acts :
          /\ ( /\ a.st = "created"
               /\ a \notin acts'
               /\ HasRecord(a.event) ) =>
                 { t.listener : t \in TasksOf(tasks', a.id) }
                    = Range(active_listeners[a.event])
          /\ a.st # "created" =>
                 { t.listener : t \in TasksOf(tasks', a.id) }
                    = { t.listener : t \in TasksOf(tasks, a.id) }]_vars

\* B was registered after the first event was popped: the first event has a
\* call of A alone, the second a call of A and a call of B.
C31_Witness ==
    \E a \in acts, b \in acts :
        /\ a.id = <<1, "message_create">> /\ a.data = 1
        /\ b.id = <<2, "message_create">> /\ b.data = 2
        /\ { t.listener : t \in TasksOf(tasks, a.id) } = {"A"}
        /\ { t.listener : t \in TasksOf(tasks, b.id) } = {"A", "B"}

\* C32: a worker's mode is the value client.queuing had in the step that
\* created the worker; no step changes a worker that exists, an assignment to
\* client.queuing included; and an activation that pops a record and calls
\* at least one listener waits for the calls exactly when its worker's mode
\* says so, whatever client.queuing is by then.
C32_ModeFixedAtCreation ==
    [][/\ \A e \in DOMAIN workers :
             e \in DOMAIN workers' /\ workers'[e] = workers[e]
       /\ \A e \in DOMAIN workers' \ DOMAIN workers :
             workers'[e].queuing = queuing
       /\ \A a \in acts :
             ( /\ a.st = "created"
               /\ a \notin acts'
               /\ HasRecord(a.event)
               /\ active_listeners[a.event] # << >> ) =>
                 \E b \in acts' :
                     /\ b.id = a.id
                     /\ b.st = "waiting" <=> workers[a.event].queuing
                     /\ b.st = "done" <=> ~workers[a.event].queuing]_vars

\* The message_create worker was created with queuing on; queuing was then
\* switched off and the second iteration created the "ready" worker.  The
\* message_create activation of the second iteration still waits for A's
\* call, and the "ready" activation has returned with R's call unfinished.
C32_Witness ==
    /\ ~queuing
    /\ DOMAIN workers = EventTypes
    /\ workers["message_create"].queuing /\ workers["message_create"].made = 1
    /\ ~workers["ready"].queuing /\ workers["ready"].made = 2
    /\ \E a \in acts, b \in acts :
          /\ a.id = <<2, "message_create">> /\ a.st = "waiting"
          /\ b.id = <<2, "ready">> /\ b.st = "done"
          /\ \E t \in TasksOf(tasks, a.id) : ~Complete(t)
          /\ \E t \in TasksOf(tasks, b.id) : ~Complete(t)

\* C33: a caller that holds a buffer can always take the step that adds to
\* it; and a step that adds a record leaves one buffer one record longer,
\* with the records it had in front in their order and the new record
\* {data, args, kwargs} last, and leaves every other buffer, the buffer
\* registry, the listener registry, the listeners, the worker table, the
\* activations, the listener calls and the popped records as they were.
C33_AddAppendsOnly ==
    /\ [](\A c \in DOMAIN handle : NumAdded < MaxEvents => ENABLED Add(c))
    /\ [][NumAdded' # NumAdded =>
            /\ NumAdded' = NumAdded + 1
            /\ DOMAIN heap' = DOMAIN heap
            /\ \E b \in DOMAIN heap :
                  /\ Len(heap'[b]) = Len(heap[b]) + 1
                  /\ SubSeq(heap'[b], 1, Len(heap[b])) = heap[b]
                  /\ LET r == heap'[b][Len(heap'[b])]
                     IN /\ DOMAIN r = {"data", "args", "kwargs"}
                        /\ r.data = NumAdded'
                        /\ r.args = Extra(r.data).args
                        /\ r.kwargs = Extra(r.data).kwargs
                  /\ \A c \in DOMAIN heap \ {b} : heap'[c] = heap[c]
            /\ UNCHANGED << event_queues, active_listeners, listener, workers,
                            acts, tasks, popped >>]_vars

\* With A registered, a worker in the table and two buffers, a record was
\* added behind a record that was waiting in its buffer.
C33_Witness ==
    /\ Registered("A")
    /\ DOMAIN workers # {}
    /\ Cardinality(DOMAIN heap) = 2
    /\ \E b \in DOMAIN heap :
          /\ Len(heap[b]) = 2
          /\ heap[b][1].data < heap[b][2].data

\* C34: a record added through a buffer that get_buffer(e) returned is in the
\* buffer the worker of type e reads, the one event_queues holds for e, until
\* it is popped.
C34_AddedIsVisible ==
    \A b \in DOMAIN heap : \A i \in DOMAIN heap[b] :
        \E e \in DOMAIN event_queues : event_queues[e] = b

\* C35: an activation that runs with a record waiting and no listener in the
\* registry of its type takes the head record off its buffer, creates no
\* listener call and is done without an exception, in that one step; the
\* step leaves the loop task, the worker table, every other buffer and every
\* other activation as they were; and no activation without listener calls
\* ever ends with an exception.
C35_NoListenerPopsQuietly ==
    /\ [](\A a \in acts :
             TasksOf(tasks, a.id) = {} => a.st \in {"created", "done"})
    /\ [][\A a \in acts :
            ( /\ a.st = "created"
              /\ a \notin acts'
              /\ HasRecord(a.event)
              /\ active_listeners[a.event] = << >> ) =>
                LET b == event_queues[a.event]
                IN /\ heap' = [heap EXCEPT ![b] = Tail(heap[b])]
                   /\ popped' = [popped EXCEPT ![b] = Append(@, Head(heap[b]))]
                   /\ tasks' = tasks
                   /\ acts' = (acts \ {a}) \cup
                         { [a EXCEPT !.st = "done", !.exec = "done",
                                     !.data = Head(heap[b]).data] }
                   /\ UNCHANGED << running_loop, workers, event_queues,
                                   active_listeners, listener,
                                   connection_status, ticks >>]_vars

\* The "ready" record of the first iteration was popped with no listener on
\* "ready" and nothing was called for it; the loop went on, and the second
\* iteration's message_create record was delivered to A.
C35_Witness ==
    /\ running_loop = "running"
    /\ active_listeners["ready"] = << >>
    /\ ~listener["R"].created
    /\ \E a \in acts, b \in acts :
          /\ a.id = <<1, "ready">> /\ a.data = 1 /\ a.st = "done"
          /\ TasksOf(tasks, a.id) = {}
          /\ b.id = <<2, "message_create">> /\ b.data = 2
          /\ \E t \in TasksOf(tasks, b.id) : t.listener = "A" /\ t.st = "done"

\* C36: the request task of a call is cancelled only in a step in which the
\* timeout handler of that same call ends its loop, and a timeout handler
\* that ends its loop while the request task of its own call is pending
\* cancels that task.
C36_HandlerCancelsOwn ==
    [][\A j \in DOMAIN http.calls :
          /\ ( /\ http.calls[j].req = "pending"
               /\ http'.calls[j].req = "cancelled" ) =>
                 ( /\ http.calls[j].handler = "polling"
                   /\ http'.calls[j].handler = "done" )
          /\ ( /\ http.calls[j].handler = "polling"
               /\ http'.calls[j].handler = "done"
               /\ http.calls[j].req = "pending" ) =>
                 http'.calls[j].req = "cancelled"]_vars

\* C37: a call of raw_request is never left waiting for a request that
\* nothing watches: while the call awaits its two tasks, its timeout handler
\* has not ended unless its request is done or cancelled.  And the call never
\* raises: it returns the response when its request returned one, and None
\* when the request returned None or was cancelled.
C37_CallReturns ==
    \A i \in DOMAIN http.calls :
        LET c == http.calls[i]
        IN c.method # "none" =>
              /\ ~(c.st = "gather" /\ c.handler = "done" /\ c.req = "pending")
              /\ c.via = "raw_request" => c.st # "raised"
              /\ (c.via = "raw_request" /\ c.st = "returned") =>
                    /\ c.req # "pending"
                    /\ c.result = (IF c.req = "resp" THEN "resp" ELSE "None")

====
